---- MODULE Spec2Model ----
(***************************************************************************)
(* A model of chainerrl/agents/acer.py (DiscreteACER): the trust-region    *)
(* projection, the return recursions of the two update paths, and the      *)
(* agent's handlers (act_and_train, act, stop_episode_and_train,           *)
(* stop_episode, load, save) with the update's steps as positions.         *)
(*                                                                         *)
(* Three specifications share the module's variables:                      *)
(*   SpecProj  the projection of update / update_on_policy on drawn g,k,d  *)
(*   SpecRet   the backward return recursions of both update paths         *)
(*   Spec      the agent of one worker, handler by handler, step by step   *)
(***************************************************************************)
EXTENDS Integers, Sequences, FiniteSets, TLC

VARIABLES
    \* --- projection (SpecProj)
    proj,
    \* --- return recursion (SpecRet)
    ret,
    \* --- the agent (Spec)
    pc,                     \* position inside the running handler, "idle" between calls
    call,                   \* the running handler and its arguments
    t, t_start,
    past_action_log_prob, past_action_entropy, past_states, past_rewards,
    past_values, past_action_distrib, past_avg_action_distrib,
    last_state, last_action, last_action_distrib,
    model, shared_model, shared_average_model, optimizer,
    replay_buffer,
    upd,                    \* locals of the running update (R, losses' gradient, kind)
    obs,                    \* what the run has observed so far (history, not program state)
    \* --- two workers on one shared model and optimizer (SpecWorkers)
    workers,                \* each worker's private model and its position in the update
    applied                 \* the optimizer updates made so far (history, not program state)

(***************************************************************************)
(* Exact rationals <<n, d>>, d > 0, in lowest terms: the code's floats.    *)
(***************************************************************************)
Abs(x) == IF x < 0 THEN -x ELSE x

RECURSIVE GCD(_, _)
GCD(a, b) == IF b = 0 THEN a ELSE GCD(b, a % b)

Rat(n, d) ==
    LET s == IF d < 0 THEN -1 ELSE 1
        c == GCD(Abs(n), Abs(d))
    IN  <<(s * n) \div c, (s * d) \div c>>

RInt(n) == <<n, 1>>
LCM(a, b) == (a \div GCD(a, b)) * b
RAdd(a, b) ==
    LET l == LCM(a[2], b[2])
    IN  Rat(a[1] * (l \div a[2]) + b[1] * (l \div b[2]), l)
RNeg(a) == <<-a[1], a[2]>>
RSub(a, b) == RAdd(a, RNeg(b))
RMul(a, b) == Rat(a[1] * b[1], a[2] * b[2])
RLt(a, b) == a[1] * b[2] < b[1] * a[2]
RMin(a, b) == IF RLt(b, a) THEN b ELSE a

(***************************************************************************)
(* IEEE values as numpy produces them: a finite rational, an infinity or   *)
(* NaN.                                                                    *)
(***************************************************************************)
Fin(r) == [kind |-> "fin", v |-> r]
PInf == [kind |-> "pinf", v |-> RInt(0)]
NInf == [kind |-> "ninf", v |-> RInt(0)]
NaN == [kind |-> "nan", v |-> RInt(0)]

\* numpy's a / b on float scalars (a, b integer-valued here): no exception,
\* a RuntimeWarning and an infinity or NaN when b = 0.
np_divide(a, b) ==
    IF b # 0 THEN Fin(Rat(a, b))
    ELSE IF a > 0 THEN PInf
    ELSE IF a < 0 THEN NInf
    ELSE NaN

\* Python's builtin max(0, x): x when x > 0 compares true, else the first
\* argument 0 (every comparison with NaN is false).
py_max0(x) ==
    CASE x.kind = "pinf" -> x
      [] x.kind = "fin" /\ RLt(RInt(0), x.v) -> x
      [] OTHER -> Fin(RInt(0))

\* numpy's (vector - scalar) for one component.
np_sub(a, m) ==
    CASE m.kind = "fin" -> Fin(RSub(a, m.v))
      [] m.kind = "pinf" -> NInf
      [] m.kind = "ninf" -> PInf
      [] OTHER -> NaN

RECURSIVE SumTo(_, _)
SumTo(f, n) == IF n = 0 THEN 0 ELSE f[n] + SumTo(f, n - 1)

\* np.dot of two vectors of equal length
np_dot(a, b) == SumTo([i \in 1..Len(a) |-> a[i] * b[i]], Len(a))

\* (np.dot(k, g) - self.trust_region_delta) / np.dot(k, k)
trust_region_ratio(g, k, delta) ==
    np_divide(np_dot(k, g) - delta, np_dot(k, k))

\* the scalar the code subtracts: max(0, (k.g - delta) / k.k)
projection_scalar(g, k, delta) == py_max0(trust_region_ratio(g, k, delta))

\* z of DiscreteACER.update: the scalar is broadcast over g's components
z_update(g, k, delta) ==
    [i \in 1..Len(g) |-> np_sub(RInt(g[i]), projection_scalar(g, k, delta))]

\* z of DiscreteACER.update_on_policy: the same expression
z_update_on_policy(g, k, delta) ==
    [i \in 1..Len(g) |-> np_sub(RInt(g[i]), projection_scalar(g, k, delta))]

(***************************************************************************)
(* SpecProj: the projection on drawn inputs.                               *)
(***************************************************************************)
ProjDim == 2
VecMax == 1
DeltaMax == 2

ProjVecs == [1..ProjDim -> -VecMax..VecMax]

NoZ == <<>>

InitProj ==
    \E g \in ProjVecs, k \in ProjVecs, d \in 0..DeltaMax :
        proj = [g |-> g, k |-> k, delta |-> d,
                done_update |-> FALSE, ratio_update |-> Fin(RInt(0)), z_update |-> NoZ,
                done_on_policy |-> FALSE, ratio_on_policy |-> Fin(RInt(0)),
                z_on_policy |-> NoZ]

IdleProj ==
    proj = [g |-> <<0, 0>>, k |-> <<0, 0>>, delta |-> 0,
            done_update |-> TRUE, ratio_update |-> Fin(RInt(0)), z_update |-> NoZ,
            done_on_policy |-> TRUE, ratio_on_policy |-> Fin(RInt(0)),
            z_on_policy |-> NoZ]

(***************************************************************************)
(* The agent: configuration.                                               *)
(***************************************************************************)
t_max == 2                  \* constructor argument t_max
n_times_replay == 2         \* constructor argument n_times_replay
AlphaNum == 3               \* trust_region_alpha = AlphaNum / AlphaDen
AlphaDen == 4
trust_region_alpha == Rat(AlphaNum, AlphaDen)
GammaNum == 9               \* gamma = GammaNum / GammaDen
GammaDen == 10
gamma == Rat(GammaNum, GammaDen)

\* bounds of the runs explored
MaxT == 3                   \* act_and_train is called while t < MaxT
MaxEpisodes == 2            \* stop_episode_and_train is called at most so often

\* what the environment and the sampling can hand to one call: the observed
\* state, the reward and the action the policy's sample returns
Inputs == { [state |-> 1, reward |-> 0, action |-> 0],
            [state |-> 2, reward |-> 1, action |-> 1] }
Grads == {1}                \* d total_loss / d parameter, as backward() leaves it
LoadParams == {5}           \* the parameter a model.npz on disk can hold

None == [kind |-> "None"]
Some(x) == [kind |-> "Some", v |-> x]
RZero == [kind |-> "zero"]  \* the bootstrap R = 0
EmptyDict == [x \in {} |-> 0]
Put(d, key, val) ==
    [x \in (DOMAIN d) \cup {key} |-> IF x = key THEN val ELSE d[x]]

\* What a forward pass of a model with parameter p on state s returns, kept
\* symbolic: the action distribution, and the quantities derived from it.
Distrib(p, s) == [kind |-> "pi", params |-> p, state |-> s]
Value(p, s) == [kind |-> "V", params |-> p, state |-> s]
LogProb(p, s, a) == [kind |-> "log_prob", params |-> p, state |-> s, action |-> a]
Entropy(p, s) == [kind |-> "entropy", params |-> p, state |-> s]

NoCall == [op |-> "none", state |-> 0, reward |-> 0, done |-> FALSE, action |-> 0,
           window |-> 0]
NoUpd == [kind |-> "none", statevar |-> None, R |-> None, replays |-> 0,
          shared_before |-> 0, optimizer_before |-> 0]
NoObs == [uop_t |-> -1, uops |-> 0, replay_calls |-> 0, steps |-> <<>>,
          events |-> <<>>, episodes |-> 0, error |-> "none",
          trace |-> <<>>, stopped |-> None]

InitAgent ==
    /\ pc = "idle"
    /\ call = NoCall
    /\ t = 0
    /\ t_start = 0
    /\ past_action_log_prob = EmptyDict
    /\ past_action_entropy = EmptyDict
    /\ past_states = EmptyDict
    /\ past_rewards = EmptyDict
    /\ past_values = EmptyDict
    /\ past_action_distrib = EmptyDict
    /\ past_avg_action_distrib = EmptyDict
    /\ last_state = None
    /\ last_action = None
    /\ last_action_distrib = None
    /\ shared_model = [params |-> 0, grad |-> 0]
    /\ shared_average_model = [params |-> RInt(0), h |-> "reset"]
    /\ \E rec \in BOOLEAN :
          model = [params |-> 0, grad |-> 0, h |-> "reset", recurrent |-> rec]
    /\ optimizer = [t |-> 0]
    /\ replay_buffer = [episodes |-> <<>>, current_episode |-> <<>>]
    /\ upd = NoUpd
    /\ obs = NoObs

bufs == <<past_action_log_prob, past_action_entropy, past_states, past_rewards,
          past_values, past_action_distrib, past_avg_action_distrib>>
lasts == <<last_state, last_action, last_action_distrib>>
nets == <<model, shared_model, shared_average_model, optimizer>>
agentvars == <<pc, call, t, t_start, bufs, lasts, nets, replay_buffer, upd, obs>>
conc == <<workers, applied>>
vars == <<proj, ret, agentvars, conc>>

(***************************************************************************)
(* Collaborators of the agent that live outside acer.py.                   *)
(***************************************************************************)
\* copy_param.copy_param(target_link, source_link): target's parameters
\* become the source's
copy_param(target, source) == source

\* copy_param.soft_copy_param(target_link, source_link, tau):
\* target <- (1 - tau) * target + tau * source
soft_copy_param(target, source, tau) ==
    RAdd(RMul(RSub(RInt(1), tau), target), RMul(tau, source))

\* copy_param.copy_grad(target_link, source_link)
copy_grad_value(target, source) == source

\* len(replay_buffer): the episodes that can be sampled
replay_len == Len(replay_buffer.episodes)

\* random_subseq: the episode itself when short enough, else one of its
\* contiguous runs of max_len transitions
subseqs(ep, max_len) ==
    IF Len(ep) <= max_len THEN {ep}
    ELSE { SubSeq(ep, i, i + max_len - 1) : i \in 1..(Len(ep) - max_len + 1) }

\* replay_buffer.sample_episodes(1, max_len)[0]
sample_episodes(max_len) ==
    UNION { subseqs(replay_buffer.episodes[e], max_len) :
              e \in 1..Len(replay_buffer.episodes) }

\* replay_buffer.stop_current_episode()
stop_current_episode(rb) ==
    IF rb.current_episode = <<>> THEN rb
    ELSE [episodes |-> Append(rb.episodes, rb.current_episode),
          current_episode |-> <<>>]

\* replay_buffer.append(...)
replay_append(rb, tr) ==
    LET rb1 == [rb EXCEPT !.current_episode = Append(@, tr)]
    IN  IF tr.is_state_terminal THEN stop_current_episode(rb1) ELSE rb1

\* optimizer.update(): one gradient step (learning rate 1) on the shared model
optimizer_step(params, grad) == params - grad

\* Recurrent.reset_state() / a forward pass outside state_kept, state_reset
reset_h(m) == [m EXCEPT !.h = "reset"]
forward_h(m) == [m EXCEPT !.h = "carried"]

(***************************************************************************)
(* The agent's handlers.  A handler runs from "idle" to "idle"; its steps  *)
(* follow each other in the order of the code, nothing else runs between.  *)
(***************************************************************************)
NewCall == [obs EXCEPT !.uops = 0, !.replay_calls = 0, !.steps = <<>>,
                       !.events = <<>>, !.uop_t = -1]
Log(step) == [obs EXCEPT !.steps = Append(@, step)]
Event(e) == [obs EXCEPT !.events = Append(@, e)]

horizon_reached_late == t - t_start = t_max + 1
horizon_reached_early == t - t_start = t_max - 1

\* if self.t - self.t_start == self.t_max:
horizon_reached == t - t_start = t_max

\* act_and_train, up to the branch on the horizon
act_and_train ==
    /\ pc = "idle"
    /\ t < MaxT
    /\ \E in \in Inputs :
         /\ call' = [op |-> "act_and_train", state |-> in.state,
                     reward |-> in.reward, done |-> FALSE, action |-> in.action,
                     window |-> t - t_start]
         /\ past_rewards' = Put(past_rewards, t - 1, in.reward)
         /\ upd' = [NoUpd EXCEPT !.statevar = Some(in.state)]
    /\ pc' = IF horizon_reached THEN "update_on_policy" ELSE "act_record"
    /\ obs' = [NewCall EXCEPT !.trace = IF obs.stopped = None THEN @ ELSE <<>>,
                              !.stopped = None]
    /\ UNCHANGED <<t, t_start, past_action_log_prob, past_action_entropy, past_states,
                   past_values, past_action_distrib, past_avg_action_distrib,
                   lasts, nets, replay_buffer, proj, ret, conc>>

\* R of update_on_policy: 0 for statevar None, else the worker model's V
bootstrap_value(statevar) ==
    IF statevar = None THEN RZero ELSE Value(model.params, statevar.v)

\* update_on_policy, up to total_loss.backward() on the worker's model
update_on_policy ==
    /\ pc = "update_on_policy"
    /\ IF ~(t_start < t)
       THEN /\ pc' = "AssertionError"
            /\ obs' = [obs EXCEPT !.error = "AssertionError"]
            /\ UNCHANGED <<upd, model>>
       ELSE /\ pc' = "zerograds"
            /\ upd' = [upd EXCEPT !.kind = "on_policy",
                                  !.R = bootstrap_value(upd.statevar),
                                  !.shared_before = shared_model.params,
                                  !.optimizer_before = optimizer.t]
            /\ \E g \in Grads : model' = [model EXCEPT !.grad = g]
            /\ obs' = [obs EXCEPT !.uop_t = t, !.uops = @ + 1, !.steps = <<>>,
                                  !.events = Append(@, "update_on_policy")]
    /\ UNCHANGED <<call, t, t_start, bufs, lasts, shared_model, shared_average_model,
                   optimizer, replay_buffer, proj, ret, conc>>

\* self.shared_model.zerograds()
zerograds ==
    /\ pc = "zerograds"
    /\ shared_model' = [shared_model EXCEPT !.grad = 0]
    /\ pc' = "copy_grad"
    /\ obs' = Log("zerograds")
    /\ UNCHANGED <<call, t, t_start, bufs, lasts, model, shared_average_model,
                   optimizer, replay_buffer, upd, proj, ret, conc>>

\* copy_param.copy_grad(target_link=self.shared_model, source_link=self.model)
copy_grad ==
    /\ pc = "copy_grad"
    /\ shared_model' = [shared_model EXCEPT !.grad = copy_grad_value(@, model.grad)]
    /\ pc' = "optimizer_update"
    /\ obs' = Log("copy_grad")
    /\ UNCHANGED <<call, t, t_start, bufs, lasts, model, shared_average_model,
                   optimizer, replay_buffer, upd, proj, ret, conc>>

\* self.optimizer.update()
optimizer_update ==
    /\ pc = "optimizer_update"
    /\ shared_model' = [shared_model EXCEPT
                          !.params = optimizer_step(@, shared_model.grad)]
    /\ optimizer' = [optimizer EXCEPT !.t = @ + 1]
    /\ pc' = "sync_parameters"
    /\ obs' = Log("optimizer_update")
    /\ UNCHANGED <<call, t, t_start, bufs, lasts, model, shared_average_model,
                   replay_buffer, upd, proj, ret, conc>>

synced_model_not_copied == model

\* sync_parameters: the worker model after copy_param from the shared model
synced_model ==
    [model EXCEPT !.params = copy_param(@, shared_model.params)]

synced_average_model_tau_alpha ==
    [shared_average_model EXCEPT
        !.params = soft_copy_param(@, RInt(synced_model.params), trust_region_alpha)]

\* sync_parameters: the average model after soft_copy_param from the worker
\* model (already copied), tau = 1 - trust_region_alpha
synced_average_model ==
    [shared_average_model EXCEPT
        !.params = soft_copy_param(@, RInt(synced_model.params),
                                   RSub(RInt(1), trust_region_alpha))]

\* self.sync_parameters() (and unchain_backward, which changes no parameter),
\* the last step of update; update_on_policy goes on to clear its window
sync_parameters ==
    /\ pc = "sync_parameters"
    /\ model' = synced_model
    /\ shared_average_model' = synced_average_model
    /\ obs' = Log("sync_parameters")
    /\ IF upd.kind = "on_policy"
       THEN pc' = "clear_window" /\ upd' = upd
       ELSE pc' = "replay_loop" /\ upd' = [upd EXCEPT !.replays = @ + 1]
    /\ UNCHANGED <<call, t, t_start, bufs, lasts, shared_model, optimizer,
                   replay_buffer, proj, ret, conc>>

\* self.t_start = self.t
cleared_t_start == t

cleared_rewards_kept == past_rewards

\* self.past_rewards = {}
cleared_rewards == EmptyDict

\* the end of update_on_policy: the seven buffers are replaced by empty ones
clear_window ==
    /\ pc = "clear_window"
    /\ past_action_log_prob' = EmptyDict
    /\ past_action_entropy' = EmptyDict
    /\ past_states' = EmptyDict
    /\ past_rewards' = cleared_rewards
    /\ past_values' = EmptyDict
    /\ past_action_distrib' = EmptyDict
    /\ past_avg_action_distrib' = EmptyDict
    /\ t_start' = cleared_t_start
    /\ pc' = "replay_loop"
    /\ upd' = [upd EXCEPT !.replays = 0]
    /\ obs' = Log("clear_window")
    /\ UNCHANGED <<call, t, lasts, nets, replay_buffer, proj, ret, conc>>

replay_iterations_short == n_times_replay - 1

\* for _ in range(self.n_times_replay):
replay_iterations == n_times_replay

after_replays_no_reset ==
    IF call.op = "act_and_train" THEN "act_record" ELSE "append_last"

\* what follows the loop: act_and_train goes on to record the step,
\* stop_episode_and_train to reset the recurrent state
after_replays == IF call.op = "act_and_train" THEN "act_record" ELSE "reset_state"

\* the loop around update_from_replay, in act_and_train and in
\* stop_episode_and_train
replay_loop ==
    /\ pc = "replay_loop"
    /\ pc' = IF upd.replays < replay_iterations THEN "update_from_replay"
             ELSE after_replays
    /\ UNCHANGED <<call, t, t_start, bufs, lasts, nets, replay_buffer, upd, obs,
                   proj, ret, conc>>

\* update_from_replay on an empty buffer: return
update_from_replay_empty ==
    /\ pc = "update_from_replay"
    /\ replay_len = 0
    /\ pc' = "replay_loop"
    /\ upd' = [upd EXCEPT !.replays = @ + 1]
    /\ obs' = [obs EXCEPT !.replay_calls = @ + 1,
                          !.events = Append(@, "update_from_replay")]
    /\ UNCHANGED <<call, t, t_start, bufs, lasts, nets, replay_buffer, proj, ret, conc>>

\* R of update_from_replay: 0 after a terminal transition, else the worker
\* model's V of the last next_state
replay_bootstrap(episode) ==
    LET last_transition == episode[Len(episode)]
    IN  IF last_transition.is_state_terminal THEN RZero
        ELSE Value(model.params, last_transition.next_state)

\* update_from_replay with a sampled episode, and update up to
\* total_loss.backward() on the worker's model (state_reset restores the
\* recurrent state of both models)
update_from_replay ==
    /\ pc = "update_from_replay"
    /\ replay_len # 0
    /\ \E episode \in sample_episodes(t_max + 1) :
         upd' = [upd EXCEPT !.kind = "replay", !.R = replay_bootstrap(episode),
                            !.shared_before = shared_model.params,
                            !.optimizer_before = optimizer.t]
    /\ \E g \in Grads : model' = [model EXCEPT !.grad = g]
    /\ pc' = "zerograds"
    /\ obs' = [obs EXCEPT !.replay_calls = @ + 1, !.steps = <<>>,
                          !.events = Append(@, "update_from_replay")]
    /\ UNCHANGED <<call, t, t_start, bufs, lasts, shared_model, shared_average_model,
                   optimizer, replay_buffer, proj, ret, conc>>

act_transition_current_policy ==
    [state |-> last_state.v, action |-> last_action.v, reward |-> call.reward,
     next_state |-> call.state, next_action |-> call.action,
     is_state_terminal |-> FALSE, mu |-> Distrib(model.params, last_state.v)]

\* the transition act_and_train appends: the previous call's state, action
\* and distribution with this call's reward, state and action
act_transition ==
    [state |-> last_state.v, action |-> last_action.v, reward |-> call.reward,
     next_state |-> call.state, next_action |-> call.action,
     is_state_terminal |-> FALSE, mu |-> last_action_distrib]

\* what this call of act_and_train was given and what it sampled its action
\* from: action_distrib, action_value = self.model(statevar)
Sampled ==
    [state |-> call.state, reward |-> call.reward, action |-> call.action,
     action_distrib |-> Distrib(model.params, call.state)]

\* act_and_train after the update, to its return
act_record ==
    /\ pc = "act_record"
    /\ past_states' = Put(past_states, t, call.state)
    /\ past_action_log_prob' =
          Put(past_action_log_prob, t, LogProb(model.params, call.state, call.action))
    /\ past_action_entropy' = Put(past_action_entropy, t, Entropy(model.params, call.state))
    /\ past_values' = Put(past_values, t, Value(model.params, call.state))
    /\ past_action_distrib' = Put(past_action_distrib, t, Distrib(model.params, call.state))
    /\ past_avg_action_distrib' =
          Put(past_avg_action_distrib, t, Distrib(shared_average_model.params, call.state))
    /\ model' = IF model.recurrent THEN forward_h(model) ELSE model
    /\ shared_average_model' =
          IF model.recurrent THEN forward_h(shared_average_model) ELSE shared_average_model
    /\ t' = t + 1
    /\ replay_buffer' = IF last_state # None
                        THEN replay_append(replay_buffer, act_transition)
                        ELSE replay_buffer
    /\ last_state' = Some(call.state)
    /\ last_action' = Some(call.action)
    /\ last_action_distrib' = Distrib(model.params, call.state)
    /\ pc' = "idle"
    /\ call' = NoCall
    /\ upd' = NoUpd
    /\ obs' = [Event("record") EXCEPT !.trace = Append(@, Sampled)]
    /\ UNCHANGED <<t_start, past_rewards, shared_model, optimizer, proj, ret, conc>>

\* act(obs): a forward pass of the worker's model, nothing is recorded
act ==
    /\ pc = "idle"
    /\ model' = IF model.recurrent THEN forward_h(model) ELSE model
    /\ UNCHANGED <<pc, call, t, t_start, bufs, lasts, shared_model,
                   shared_average_model, optimizer, replay_buffer, upd, obs, proj, ret, conc>>

\* stop_episode_and_train, up to the call of update_on_policy
stop_episode_and_train ==
    /\ pc = "idle"
    /\ last_state # None
    /\ last_action # None
    /\ obs.episodes < MaxEpisodes
    /\ \E in \in Inputs, done \in BOOLEAN :
         /\ call' = [op |-> "stop_episode_and_train", state |-> in.state,
                     reward |-> in.reward, done |-> done, action |-> 0,
                     window |-> t - t_start]
         /\ past_rewards' = Put(past_rewards, t - 1, in.reward)
         /\ upd' = [NoUpd EXCEPT !.statevar = IF done THEN None ELSE Some(in.state)]
         /\ obs' = [NewCall EXCEPT !.episodes = @ + 1,
                       !.stopped = Some([state |-> in.state, reward |-> in.reward,
                                         done |-> done])]
    /\ pc' = "update_on_policy"
    /\ UNCHANGED <<t, t_start, past_action_log_prob, past_action_entropy, past_states,
                   past_values, past_action_distrib, past_avg_action_distrib,
                   lasts, nets, replay_buffer, proj, ret, conc>>

\* stop_episode_and_train: where it goes on after the replay updates
reset_state ==
    /\ pc = "reset_state"
    /\ model' = IF model.recurrent THEN reset_h(model) ELSE model
    /\ shared_average_model' =
          IF model.recurrent THEN reset_h(shared_average_model) ELSE shared_average_model
    /\ pc' = "append_last"
    /\ obs' = Event("reset_state")
    /\ UNCHANGED <<call, t, t_start, bufs, lasts, shared_model, optimizer,
                   replay_buffer, upd, proj, ret, conc>>

\* the transition stop_episode_and_train appends
stop_transition ==
    [state |-> last_state.v, action |-> last_action.v, reward |-> call.reward,
     next_state |-> call.state, next_action |-> last_action.v,
     is_state_terminal |-> call.done, mu |-> last_action_distrib]

\* self.replay_buffer.append(...); self.replay_buffer.stop_current_episode()
append_last ==
    /\ pc = "append_last"
    /\ replay_buffer' = stop_current_episode(replay_append(replay_buffer, stop_transition))
    /\ pc' = "clear_last"
    /\ obs' = Event("append_and_stop_current_episode")
    /\ UNCHANGED <<call, t, t_start, bufs, lasts, nets, upd, proj, ret, conc>>

\* self.last_state = None; self.last_action = None; self.last_action_distrib = None
clear_last ==
    /\ pc = "clear_last"
    /\ last_state' = None
    /\ last_action' = None
    /\ last_action_distrib' = None
    /\ pc' = "idle"
    /\ call' = NoCall
    /\ upd' = NoUpd
    /\ obs' = Event("clear_last")
    /\ UNCHANGED <<t, t_start, bufs, nets, replay_buffer, proj, ret, conc>>

\* stop_episode()
stop_episode ==
    /\ pc = "idle"
    /\ model' = IF model.recurrent THEN reset_h(model) ELSE model
    /\ shared_average_model' =
          IF model.recurrent THEN reset_h(shared_average_model) ELSE shared_average_model
    /\ UNCHANGED <<pc, call, t, t_start, bufs, lasts, shared_model, optimizer,
                   replay_buffer, upd, obs, proj, ret, conc>>

\* load(dirname): the worker's model from model.npz, copied into the shared
\* model; the optimizer from optimizer.npz when that file exists.  A
\* checkpoint is restored before the first step of a run.
load ==
    /\ pc = "idle"
    /\ t = 0
    /\ \E p \in LoadParams, has_optimizer \in BOOLEAN :
         /\ model' = [model EXCEPT !.params = p]
         /\ shared_model' = [shared_model EXCEPT !.params = copy_param(@, p)]
         /\ optimizer' = IF has_optimizer THEN [optimizer EXCEPT !.t = 0] ELSE optimizer
    /\ UNCHANGED <<pc, call, t, t_start, bufs, lasts, shared_average_model,
                   replay_buffer, upd, obs, proj, ret, conc>>

(***************************************************************************)
(* SpecProj: both updates' projection applied to the drawn g, k, delta.    *)
(***************************************************************************)
\* update, lines "z = (g - max(0, ...))"
ProjectUpdate ==
    /\ ~proj.done_update
    /\ proj' = [proj EXCEPT
                  !.done_update = TRUE,
                  !.ratio_update = trust_region_ratio(proj.g, proj.k, proj.delta),
                  !.z_update = z_update(proj.g, proj.k, proj.delta)]
    /\ UNCHANGED <<ret, agentvars, conc>>

\* update_on_policy, lines "z = (g - max(0, ...))"
ProjectOnPolicy ==
    /\ ~proj.done_on_policy
    /\ proj' = [proj EXCEPT
                  !.done_on_policy = TRUE,
                  !.ratio_on_policy = trust_region_ratio(proj.g, proj.k, proj.delta),
                  !.z_on_policy = z_update_on_policy(proj.g, proj.k, proj.delta)]
    /\ UNCHANGED <<ret, agentvars, conc>>

NextProj == ProjectUpdate \/ ProjectOnPolicy

(***************************************************************************)
(* SpecRet: the backward loops of update (replay path, with rho) and of    *)
(* update_on_policy over one window, fed the same rewards, values and      *)
(* bootstrap value.  The loop reads index i only in its i-th round, so     *)
(* the window's entries are drawn as the loops reach them.                 *)
(***************************************************************************)
RetRewards == {0, 1, 2}
RetValues == {0, 1}         \* V(s_i), Q(s_i, a_i) and the bootstrap value
Rhos == {Rat(1, 2), RInt(1), RInt(2)}

Q_ret_target_no_discount(reward, Q_ret) == RAdd(reward, Q_ret)

\* update: Q_ret = rewards[i] + self.gamma * Q_ret
Q_ret_target(reward, Q_ret) == RAdd(reward, RMul(gamma, Q_ret))

\* update: Q_ret = min(1, rho[i]) * (Q_ret - Q) + float(values[i].data)
Q_ret_next(Q_ret, rho, Q, V) == RAdd(RMul(RMin(RInt(1), rho), RSub(Q_ret, Q)), V)

\* update_on_policy: R *= self.gamma; R += self.past_rewards[i]
R_target(reward, R) == RAdd(RMul(R, gamma), reward)

\* update: v_loss += (Q_ret - v) ** 2 / 2
v_loss_update(v_loss, Q_ret, v) ==
    RAdd(v_loss, RMul(RMul(RSub(Q_ret, v), RSub(Q_ret, v)), Rat(1, 2)))

\* update_on_policy: v_loss += (v - R) ** 2 / 2
v_loss_on_policy(v_loss, v, R) ==
    RAdd(v_loss, RMul(RMul(RSub(v, R), RSub(v, R)), Rat(1, 2)))

InitRet ==
    \E n \in 1..(t_max + 1), boot \in RetValues :
        ret = [phase |-> "run", n |-> n, i |-> n,
               Q_ret |-> RInt(boot), R |-> RInt(boot),
               rewards |-> <<>>, Q_ret_seq |-> <<>>, R_seq |-> <<>>,
               v_loss_update |-> RInt(0), v_loss_on_policy |-> RInt(0),
               rho_one |-> TRUE, q_eq_v |-> TRUE]

IdleRet ==
    ret = [phase |-> "off", n |-> 0, i |-> 0, Q_ret |-> RInt(0), R |-> RInt(0),
           rewards |-> <<>>, Q_ret_seq |-> <<>>, R_seq |-> <<>>,
           v_loss_update |-> RInt(0), v_loss_on_policy |-> RInt(0),
           rho_one |-> TRUE, q_eq_v |-> TRUE]

\* one round of "for i in reversed(range(t_start, t_stop))" in both loops
RetStep ==
    /\ ret.phase = "run"
    /\ ret.i > 0
    /\ \E r \in RetRewards, v \in RetValues, q \in RetValues, rho \in Rhos :
         LET target == Q_ret_target(RInt(r), ret.Q_ret)
             Rn == R_target(RInt(r), ret.R)
         IN  ret' = [ret EXCEPT
                       !.i = @ - 1,
                       !.rewards = <<r>> \o @,
                       !.Q_ret_seq = <<target>> \o @,
                       !.R_seq = <<Rn>> \o @,
                       !.v_loss_update = v_loss_update(@, target, RInt(v)),
                       !.v_loss_on_policy = v_loss_on_policy(@, RInt(v), Rn),
                       !.Q_ret = Q_ret_next(target, rho, RInt(q), RInt(v)),
                       !.R = Rn,
                       !.rho_one = @ /\ rho = RInt(1),
                       !.q_eq_v = @ /\ q = v]
    /\ UNCHANGED <<proj, agentvars, conc>>

NextRet == RetStep

(***************************************************************************)
(* SpecWorkers: two workers, each with a private model, run the end of an  *)
(* update (lines 255-270, 407-422) on the one shared model and optimizer.  *)
(* A step of one worker can follow any step of the other: nothing locks.   *)
(***************************************************************************)
Workers == {1, 2}
MaxUpdates == 2             \* each worker makes at most so many updates

\* the gradient total_loss.backward() leaves in worker w's model: the
\* workers' gradients differ, so that an update shows whose it applied
WorkerGrads(w) == {w}

NoWorker == [pc |-> "backward", params |-> 0, grad |-> 0, updates |-> 0]
NoApplied == [updates |-> <<>>, undisturbed |-> [w \in Workers |-> FALSE]]

InitWorkers ==
    /\ workers = [w \in Workers |-> NoWorker]
    /\ applied = NoApplied

IdleWorkers ==
    /\ workers = [w \in Workers |-> [NoWorker EXCEPT !.updates = MaxUpdates]]
    /\ applied = NoApplied

singlevars == <<pc, call, t, t_start, bufs, lasts, model, replay_buffer, upd, obs>>

\* another worker has written the shared gradients: whatever a worker had
\* copied there is gone
Disturb(w) == [v \in Workers |-> IF v = w THEN applied.undisturbed[v] ELSE FALSE]

\* self.model.zerograds(); total_loss.backward()
worker_backward(w) ==
    /\ workers[w].pc = "backward"
    /\ workers[w].updates < MaxUpdates
    /\ \E g \in WorkerGrads(w) :
          workers' = [workers EXCEPT ![w].grad = g, ![w].pc = "zerograds"]
    /\ UNCHANGED <<applied, shared_model, shared_average_model, optimizer,
                   singlevars, proj, ret>>

\* self.shared_model.zerograds()
worker_zerograds(w) ==
    /\ workers[w].pc = "zerograds"
    /\ shared_model' = [shared_model EXCEPT !.grad = 0]
    /\ workers' = [workers EXCEPT ![w].pc = "copy_grad"]
    /\ applied' = [applied EXCEPT !.undisturbed = [Disturb(w) EXCEPT ![w] = FALSE]]
    /\ UNCHANGED <<shared_average_model, optimizer, singlevars, proj, ret>>

\* copy_param.copy_grad(target_link=self.shared_model, source_link=self.model)
worker_copy_grad(w) ==
    /\ workers[w].pc = "copy_grad"
    /\ shared_model' = [shared_model EXCEPT !.grad = copy_grad_value(@, workers[w].grad)]
    /\ workers' = [workers EXCEPT ![w].pc = "optimizer_update"]
    /\ applied' = [applied EXCEPT !.undisturbed = [Disturb(w) EXCEPT ![w] = TRUE]]
    /\ UNCHANGED <<shared_average_model, optimizer, singlevars, proj, ret>>

applied_gradient_own(w) == workers[w].grad

\* the gradient self.optimizer.update() steps along: the optimizer is set
\* up on the shared model and reads that model's gradient storage
applied_gradient(w) == shared_model.grad

\* self.optimizer.update()
worker_optimizer_update(w) ==
    /\ workers[w].pc = "optimizer_update"
    /\ shared_model' =
          [shared_model EXCEPT !.params = optimizer_step(@, applied_gradient(w))]
    /\ optimizer' = [optimizer EXCEPT !.t = @ + 1]
    /\ workers' = [workers EXCEPT ![w].pc = "sync_parameters"]
    /\ applied' = [applied EXCEPT !.updates =
          Append(@, [by |-> w, own |-> workers[w].grad,
                     shared_grad |-> shared_model.grad,
                     step |-> shared_model.params - shared_model'.params,
                     undisturbed |-> applied.undisturbed[w]])]
    /\ UNCHANGED <<shared_average_model, singlevars, proj, ret>>

\* self.sync_parameters()
worker_sync_parameters(w) ==
    /\ workers[w].pc = "sync_parameters"
    /\ \E p \in {copy_param(workers[w].params, shared_model.params)} :
          /\ workers' = [workers EXCEPT ![w].params = p, ![w].pc = "backward",
                                        ![w].updates = @ + 1]
          /\ shared_average_model' =
                [shared_average_model EXCEPT
                    !.params = soft_copy_param(@, RInt(p), RSub(RInt(1), trust_region_alpha))]
    /\ UNCHANGED <<applied, shared_model, optimizer, singlevars, proj, ret>>

NextWorkers ==
    \E w \in Workers :
        \/ worker_backward(w)
        \/ worker_zerograds(w)
        \/ worker_copy_grad(w)
        \/ worker_optimizer_update(w)
        \/ worker_sync_parameters(w)

Next ==
    \/ act_and_train
    \/ update_on_policy
    \/ zerograds
    \/ copy_grad
    \/ optimizer_update
    \/ sync_parameters
    \/ clear_window
    \/ replay_loop
    \/ update_from_replay_empty
    \/ update_from_replay
    \/ act_record
    \/ act
    \/ stop_episode_and_train
    \/ reset_state
    \/ append_last
    \/ clear_last
    \/ stop_episode
    \/ load

Init == InitAgent /\ IdleProj /\ IdleRet /\ IdleWorkers

Spec == Init /\ [][Next]_vars

IdleAgent == InitAgent /\ model.recurrent

InitSpecProj == InitProj /\ IdleRet /\ IdleAgent /\ IdleWorkers

SpecProj == InitSpecProj /\ [][NextProj]_vars

InitSpecRet == InitRet /\ IdleProj /\ IdleAgent /\ IdleWorkers

SpecRet == InitSpecRet /\ [][NextRet]_vars

InitSpecWorkers == InitWorkers /\ IdleProj /\ IdleRet /\ IdleAgent

SpecWorkers == InitSpecWorkers /\ [][NextWorkers]_vars

(***************************************************************************)
(* Properties of the projection (SpecProj).                                *)
(***************************************************************************)
\* g - max(0, (k.g - delta) / (k.k)) * k, component by component, for k.k > 0
projected(g, k, delta) ==
    LET kg == np_dot(k, g)
        kk == np_dot(k, k)
        c == IF kg - delta > 0 THEN Rat(kg - delta, kk) ELSE RInt(0)
    IN  [i \in 1..Len(g) |-> Fin(RSub(RInt(g[i]), RMul(c, RInt(k[i]))))]

unprojected(g) == [i \in 1..Len(g) |-> Fin(RInt(g[i]))]

\* C1: for k.k > 0 the z of update and of update_on_policy is
\* g - max(0, (k.g - delta)/(k.k)) * k, the scalar multiplied by k
\* component-wise before the subtraction.
C1_ProjectionMultipliesK ==
    (np_dot(proj.k, proj.k) > 0) =>
        /\ proj.done_update => proj.z_update = projected(proj.g, proj.k, proj.delta)
        /\ proj.done_on_policy =>
              proj.z_on_policy = projected(proj.g, proj.k, proj.delta)

\* C7: for k the zero vector the projection returns z = g, performs no
\* division by zero and produces no NaN or infinite value, for every
\* delta >= 0.
C7_ProjectionGuardsZeroK ==
    (np_dot(proj.k, proj.k) = 0) =>
        /\ proj.done_update =>
              /\ proj.z_update = unprojected(proj.g)
              /\ proj.ratio_update.kind = "fin"
        /\ proj.done_on_policy =>
              /\ proj.z_on_policy = unprojected(proj.g)
              /\ proj.ratio_on_policy.kind = "fin"

SyncSteps == {"zerograds", "copy_grad", "optimizer_update", "sync_parameters"}
StopTail == {"reset_state", "append_last", "clear_last"}
Stopping == call.op = "stop_episode_and_train"
Acting == call.op = "act_and_train"
LastOf(seq) == seq[Len(seq)]

\* update_on_policy has just returned: its window is cleared and no replay
\* update has been called yet
JustAfterUpdateOnPolicy ==
    pc = "replay_loop" /\ upd.kind = "on_policy" /\ upd.replays = 0

\* C3: when update_on_policy completes, t_start equals the t the update
\* began with, t is unchanged, and the seven per-step buffers are empty.
C3_WindowLifecycle ==
    /\ (upd.kind = "on_policy" /\ pc \in SyncSteps \cup {"clear_window"}) => t = obs.uop_t
    /\ JustAfterUpdateOnPolicy =>
          /\ t_start = obs.uop_t
          /\ t = obs.uop_t
          /\ past_action_log_prob = EmptyDict
          /\ past_action_entropy = EmptyDict
          /\ past_states = EmptyDict
          /\ past_rewards = EmptyDict
          /\ past_values = EmptyDict
          /\ past_action_distrib = EmptyDict
          /\ past_avg_action_distrib = EmptyDict

\* the update forced by the first stop_episode_and_train of a run that took
\* three steps (so a horizon update came before it) has just returned
C3_Witness ==
    JustAfterUpdateOnPolicy /\ Stopping /\ t = 3 /\ obs.episodes = 1

KeysIn(d, lo, hi) == \A key \in DOMAIN d : lo <= key /\ key < hi

\* C4 as stated: between calls, 0 <= t - t_start <= t_max and every key of
\* every per-step buffer, the rewards buffer included, lies in [t_start, t).
C4_AllKeysInWindow ==
    pc = "idle" =>
        /\ 0 <= t - t_start /\ t - t_start <= t_max
        /\ KeysIn(past_action_log_prob, t_start, t)
        /\ KeysIn(past_action_entropy, t_start, t)
        /\ KeysIn(past_states, t_start, t)
        /\ KeysIn(past_rewards, t_start, t)
        /\ KeysIn(past_values, t_start, t)
        /\ KeysIn(past_action_distrib, t_start, t)
        /\ KeysIn(past_avg_action_distrib, t_start, t)

\* C4 amended: 0 <= t - t_start <= t_max; the keys of the six buffers other
\* than rewards lie in [t_start, t); the keys of the rewards buffer lie in
\* [t_start - 1, t), and between calls in [t_start - 1, t - 1).
C4_WindowBound ==
    /\ 0 <= t - t_start /\ t - t_start <= t_max
    /\ KeysIn(past_action_log_prob, t_start, t)
    /\ KeysIn(past_action_entropy, t_start, t)
    /\ KeysIn(past_states, t_start, t)
    /\ KeysIn(past_values, t_start, t)
    /\ KeysIn(past_action_distrib, t_start, t)
    /\ KeysIn(past_avg_action_distrib, t_start, t)
    /\ KeysIn(past_rewards, t_start - 1, t)
    /\ pc = "idle" => KeysIn(past_rewards, t_start - 1, t - 1)

\* a full window of a second episode, whose rewards buffer still holds the
\* reward handed to the episode's first call under key t_start - 1
C4_Witness ==
    /\ pc = "idle" /\ t_start > 0 /\ t - t_start = t_max
    /\ (t_start - 1) \in DOMAIN past_rewards
    /\ DOMAIN past_states = t_start..(t - 1)

C5_State ==
    /\ obs.uops \in {0, 1}
    /\ (Acting /\ pc = "act_record") => (obs.uops = 1 <=> call.window = t_max)
    /\ (Stopping /\ pc \in StopTail) => obs.uops = 1
    /\ (upd.kind = "on_policy" /\ pc = "zerograds") =>
          upd.R = IF call.done THEN RZero ELSE Value(model.params, call.state)

C5_Step ==
    (pc = "idle" /\ pc' = "idle") => UNCHANGED <<obs, t_start, bufs>>

\* C5: act_and_train runs update_on_policy exactly when t - t_start = t_max
\* at the call, stop_episode_and_train always does, act, stop_episode (and
\* load) never; the bootstrap value is 0 for done = true and the worker
\* model's value of the given state otherwise.
C5_OnPolicyTrigger == []C5_State /\ [][C5_Step]_vars

\* act_and_train called with a full window: the update has run, bootstrapped
\* from the state of the call
C5_Witness ==
    /\ Acting /\ pc = "zerograds" /\ upd.kind = "on_policy" /\ call.window = t_max
    /\ upd.R = Value(model.params, call.state)

ReplayEvents(n) == [i \in 1..n |-> "update_from_replay"]

C6_State ==
    /\ obs.replay_calls > 0 => obs.uops = 1
    /\ obs.replay_calls <= n_times_replay
    /\ (obs.uops = 1 /\ pc # "idle") =>
          /\ Len(obs.events) >= 1 + obs.replay_calls
          /\ SubSeq(obs.events, 1, 1 + obs.replay_calls) =
                <<"update_on_policy">> \o ReplayEvents(obs.replay_calls)
    /\ (obs.uops = 1 /\ pc \in StopTail \cup {"act_record"}) =>
          obs.replay_calls = n_times_replay

C6_Step ==
    (pc = "update_from_replay" /\ replay_len = 0) =>
        /\ UNCHANGED <<nets, t, t_start, bufs>>
        /\ pc' = "replay_loop"
        /\ obs'.error = "none"

\* C6: every on-policy update is followed at once by exactly n_times_replay
\* calls of update_from_replay, none runs without one before it, and a call
\* on an empty replay buffer changes neither models, optimizer, t, t_start
\* nor the window and raises nothing.
C6_ReplayScheduling == []C6_State /\ [][C6_Step]_vars

\* the replay loop has finished on a still empty buffer
C6_Witness ==
    /\ pc = "replay_loop" /\ upd.replays = n_times_replay /\ replay_len = 0
    /\ obs.events = <<"update_on_policy">> \o ReplayEvents(n_times_replay)

UpdateOrder == <<"zerograds", "copy_grad", "optimizer_update", "sync_parameters">>

\* C8: an update zeroes the shared gradients, copies the worker's gradients
\* into the shared model, steps the optimizer once, then copies the shared
\* parameters into the worker; at its end the worker's parameters are the
\* shared model's parameters after that optimizer step.
C8_ParameterSync ==
    (upd.kind \in {"on_policy", "replay"} /\ pc # "idle") =>
        /\ \A i \in 1..Len(obs.steps) : i <= 4 => obs.steps[i] = UpdateOrder[i]
        /\ (Len(obs.steps) = 1) => shared_model.grad = 0
        /\ (Len(obs.steps) = 2) =>
              /\ shared_model.grad = model.grad
              /\ shared_model.params = upd.shared_before
              /\ optimizer.t = upd.optimizer_before
        /\ (Len(obs.steps) = 3) =>
              /\ shared_model.params = upd.shared_before - model.grad
              /\ optimizer.t = upd.optimizer_before + 1
        /\ (Len(obs.steps) >= 4) =>
              /\ model.params = shared_model.params
              /\ shared_model.params = upd.shared_before - model.grad
              /\ optimizer.t = upd.optimizer_before + 1

\* a replay update, after an on-policy one, has finished
C8_Witness ==
    /\ pc = "replay_loop" /\ upd.kind = "replay" /\ obs.steps = UpdateOrder
    /\ model.params = shared_model.params
    /\ shared_model.params = upd.shared_before - 1

C9_Step ==
    \/ shared_average_model'.params = shared_average_model.params
    \/ /\ pc = "sync_parameters"
       /\ model'.params = shared_model.params
       /\ shared_average_model'.params =
             RAdd(RMul(shared_average_model.params, trust_region_alpha),
                  RMul(RInt(model'.params), RSub(RInt(1), trust_region_alpha)))

\* C9: every step leaves the average model's parameters unchanged or is
\* sync_parameters setting them to avg * alpha + worker * (1 - alpha), worker
\* being the worker model's parameter after the hard copy.
C9_AverageModelOnlySoftUpdated == [][C9_Step]_vars

\* the first soft update: 0 * 3/4 + (-1) * 1/4
C9_Witness ==
    /\ pc = "clear_window" /\ optimizer.t = 1 /\ model.params = -1
    /\ shared_average_model.params = Rat(-1, 4)

\* C10 as stated: the last transition is appended and the episode closed
\* before the forced on-policy update and its replay updates run.
C10_FinalizedBeforeUpdate ==
    (Stopping /\ pc \in SyncSteps \cup {"clear_window", "replay_loop", "update_from_replay"}) =>
        /\ Len(replay_buffer.episodes) = obs.episodes
        /\ replay_buffer.current_episode = <<>>

StopOrder ==
    <<"update_on_policy">> \o ReplayEvents(n_times_replay) \o
    <<"reset_state", "append_and_stop_current_episode", "clear_last">>

\* C10 amended: stop_episode_and_train runs the forced on-policy update and
\* its replay updates first, then resets the recurrent state, then appends
\* the last transition (terminal exactly when done) and closes the buffer's
\* episode, then clears last_state, last_action and last_action_distrib.
C10_StopOrder ==
    /\ (Stopping /\ pc \notin {"idle", "clear_last"}) =>
          /\ Len(replay_buffer.episodes) = obs.episodes - 1
          /\ last_state # None /\ last_action # None /\ last_action_distrib # None
    /\ (Stopping /\ pc \in StopTail) =>
          SubSeq(StopOrder, 1, Len(obs.events)) = obs.events
    /\ (Stopping /\ pc = "append_last") =>
          /\ LastOf(obs.events) = "reset_state"
          /\ model.recurrent => (model.h = "reset" /\ shared_average_model.h = "reset")
    /\ (Stopping /\ pc = "clear_last") =>
          /\ Len(replay_buffer.episodes) = obs.episodes
          /\ replay_buffer.current_episode = <<>>
          /\ LastOf(LastOf(replay_buffer.episodes)) = stop_transition
          /\ last_state # None
    /\ (pc = "idle" /\ obs.events # <<>> /\ LastOf(obs.events) = "clear_last") =>
          /\ obs.events = StopOrder
          /\ last_state = None /\ last_action = None /\ last_action_distrib = None

\* a second episode has been stopped, its replay updates sampling the first
C10_Witness ==
    /\ pc = "idle" /\ obs.events = StopOrder /\ obs.episodes = 2
    /\ Len(replay_buffer.episodes) = 2 /\ last_state = None
    /\ optimizer.t >= 2 + n_times_replay

(***************************************************************************)
(* Transition recording.  obs.trace holds, for every act_and_train call of *)
(* the episode, what the call was given and sampled; obs.stopped what the  *)
(* episode's stop_episode_and_train was given.                             *)
(***************************************************************************)
\* the transition the j-th call of the episode must give rise to, the
\* following call having been given reward and next_state
Recorded(j, reward, next_state) ==
    [state |-> obs.trace[j].state, action |-> obs.trace[j].action,
     reward |-> reward, next_state |-> next_state,
     mu |-> obs.trace[j].action_distrib]

Carried(tr) ==
    [state |-> tr.state, action |-> tr.action, reward |-> tr.reward,
     next_state |-> tr.next_state, mu |-> tr.mu]

\* the first Len(obs.trace) - 1 transitions of ep are those of the calls
\* 1 .. Len(obs.trace) - 1, each completed by the call after it
StepsRecorded(ep) ==
    \A j \in 1..(Len(obs.trace) - 1) :
        /\ j <= Len(ep)
        /\ Carried(ep[j]) = Recorded(j, obs.trace[j + 1].reward, obs.trace[j + 1].state)

EpisodeClosed == obs.stopped # None /\ pc \in {"clear_last", "idle"}

\* C11: an episode of n >= 1 act_and_train calls and one
\* stop_episode_and_train appends exactly n transitions in step order, none
\* on the first call; the j-th carries the state and action of the j-th
\* call, the reward and next state given to the following call, and as mu
\* the distribution the j-th action was sampled from.
C11_TransitionRecording ==
    /\ (obs.stopped = None /\ pc = "idle") =>
          /\ Len(replay_buffer.current_episode) =
                IF obs.trace = <<>> THEN 0 ELSE Len(obs.trace) - 1
          /\ StepsRecorded(replay_buffer.current_episode)
          /\ Len(replay_buffer.episodes) = obs.episodes
    /\ EpisodeClosed =>
          /\ Len(obs.trace) >= 1
          /\ replay_buffer.current_episode = <<>>
          /\ Len(replay_buffer.episodes) = obs.episodes
          /\ Len(LastOf(replay_buffer.episodes)) = Len(obs.trace)
          /\ StepsRecorded(LastOf(replay_buffer.episodes))
          /\ Carried(LastOf(LastOf(replay_buffer.episodes))) =
                Recorded(Len(obs.trace), obs.stopped.v.reward, obs.stopped.v.state)

\* an episode of three calls has been closed; the horizon update of the
\* third call changed the policy after the second action was sampled
C11_Witness ==
    /\ EpisodeClosed /\ pc = "idle" /\ Len(obs.trace) = 3
    /\ obs.trace[2].action_distrib.params # obs.trace[3].action_distrib.params
    /\ LastOf(replay_buffer.episodes)[2].mu = obs.trace[2].action_distrib

(***************************************************************************)
(* Two workers, no lock.                                                   *)
(***************************************************************************)
\* C12 as stated: every optimizer update applies exactly the gradient the
\* worker that invokes it computed, so none is lost or applied twice.
C12_OwnGradientApplied ==
    \A i \in 1..Len(applied.updates) :
        applied.updates[i].step = applied.updates[i].own

\* C12 amended: every optimizer update applies what the shared gradient
\* storage holds when it runs; that is the invoking worker's own gradient
\* when no other worker zeroed or overwrote the storage since the worker
\* copied its gradient there.
C12_SharedGradientApplied ==
    /\ optimizer.t = Len(applied.updates)
    /\ \A i \in 1..Len(applied.updates) :
          /\ applied.updates[i].step = applied.updates[i].shared_grad
          /\ applied.updates[i].undisturbed =>
                applied.updates[i].step = applied.updates[i].own

\* worker 2 overwrote the gradient worker 1 had copied: both updates applied
\* worker 2's gradient, worker 1's was never applied
C12_Witness ==
    /\ Len(applied.updates) = 2
    /\ applied.updates[1].by = 1 /\ applied.updates[2].by = 2
    /\ ~applied.updates[1].undisturbed /\ applied.updates[2].undisturbed
    /\ applied.updates[1].step = applied.updates[2].own
    /\ applied.updates[2].step = applied.updates[2].own
    /\ applied.updates[1].own # applied.updates[1].step

====
